---- MODULE Spec2Model ----
(***************************************************************************)
(* SCBert: Vectorizer.forward_and_pool and its helpers                     *)
(* (src/SCBert/SCBert.py).  One call of forward_and_pool is a state        *)
(* machine: argument validation, the batch loop (one encoder call per      *)
(* batch), the pooling of every document of the batch, the optional save   *)
(* and the return.  The tokenizer and the encoder are external libraries:  *)
(* the tokenizer is modelled by the id layout it produces                  *)
(* ([BOS, w1..wk, EOS, pad, ...]), the encoder by a fixed deterministic    *)
(* function of the ids it is given.                                        *)
(*                                                                         *)
(* Numbers are exact rationals [n, d] (d = 0 is NaN).  A tensor keeps its  *)
(* true shape (rows, cols) and the values of TrackDim feature columns per  *)
(* layer: every operation used here acts on each feature column on its     *)
(* own, so the tracked columns are computed exactly as the code does.      *)
(***************************************************************************)
EXTENDS Integers, Sequences, FiniteSets, TLC

(* ------------------------------ bounds --------------------------------- *)
\* largest number of documents in one call
MaxDocs == 3
\* largest valid batch_size tried
MaxBatch == 2
\* the small MAX_LEN tried next to the default one
SmallLen == 5
\* feature columns whose values are tracked in every tensor
TrackDim == 1

(* ------------------------- program constants --------------------------- *)
\* tokenize(self, data, MAX_LEN = 256)
DefaultMaxLen == 256
\* rows and columns of the accumulator of __word_pooling
AccRows == 256
AccCols == 768
\* initial value of the "max" accumulator of __word_pooling
AccMaxInit == -100
\* width of the hidden states of flaubert-base-uncased and camembert-base
HiddenDim == 768
\* layers must lie in 1..12; the encoder returns layers 0..12
NumLayers == 12
\* the id the last position is compared with (input_ids_tensor[idx][-1]==1)
EosCode == 1
\* forward_and_pool(..., layers = 11, batch_size=50, path_to_save=None)
DefaultLayers == 11
DefaultBatchSize == 50

ModelNames == {"flaubert", "camembert"}

\* MODELS[name]["pad_id"], with the ids the two tokenizers give to their
\* beginning and end markers
MODELS(name) ==
    IF name = "flaubert"
    THEN [pad_id |-> 2, bos_id |-> 0, eos_id |-> 1]
    ELSE [pad_id |-> 1, bos_id |-> 5, eos_id |-> 6]

(* --------------------------- Python values ----------------------------- *)
PyInt(i) == [t |-> "int", i |-> i, s |-> "", l |-> <<>>]
PyBool(i) == [t |-> "bool", i |-> i, s |-> "", l |-> <<>>]
PyFloat(s) == [t |-> "float", i |-> 0, s |-> s, l |-> <<>>]
PyStr(s) == [t |-> "str", i |-> 0, s |-> s, l |-> <<>>]
PyNone == [t |-> "NoneType", i |-> 0, s |-> "", l |-> <<>>]
PyList(l) == [t |-> "list", i |-> 0, s |-> "", l |-> l]

NoError == [type |-> "", at |-> ""]
Raise(type, at) == [type |-> type, at |-> at]

Min(a, b) == IF a < b THEN a ELSE b
Max(a, b) == IF a < b THEN b ELSE a

\* str.lower() on the method names that occur
Lower(s) ==
    CASE s = "Average" -> "average"
      [] s = "MAX" -> "max"
      [] OTHER -> s

\* seq[i] with Python's index rule: 0-based, negative counts from the end
PyIndexOk(n, i) == i >= -n /\ i < n
PyIndexPos(n, i) == IF i < 0 THEN n + i ELSE i

(* ------------------------------ numbers -------------------------------- *)
Rat(n) == [n |-> n, d |-> 1]
NaN == [n |-> 0, d |-> 0]
IsNaN(a) == a.d = 0

RAdd(a, b) ==
    IF a.d = 0 \/ b.d = 0 THEN NaN
    ELSE IF a.d = b.d THEN [n |-> a.n + b.n, d |-> a.d]
    ELSE [n |-> a.n * b.d + b.n * a.d, d |-> a.d * b.d]

\* a / c for an integer count c >= 0 (0/0 is NaN; only 0/0 arises here)
RDiv(a, c) == IF a.d = 0 \/ c = 0 THEN NaN ELSE [n |-> a.n, d |-> a.d * c]

RLess(a, b) == a.n * b.d < b.n * a.d
REq(a, b) == IF a.d = 0 \/ b.d = 0 THEN a.d = b.d ELSE a.n * b.d = b.n * a.d

\* torch.max of two numbers: NaN propagates
RMax(a, b) ==
    IF a.d = 0 \/ b.d = 0 THEN NaN ELSE IF RLess(a, b) THEN b ELSE a

VecEq(u, v) == Len(u) = Len(v) /\ \A i \in 1..Len(u) : REq(u[i], v[i])

(* --------------------- tokenizer and encoder --------------------------- *)
\* id of the j-th word of a text (distinct from every special id)
Word(j) == 10 + j

\* a text of k words, as the tokenizer splits it
Text(k) == [j \in 1..k |-> Word(j)]

Pads(n, pad_id) == [j \in 1..n |-> pad_id]

\* tokenizer.encode(text, max_length=MAX_LEN, pad_to_max_length=True,
\* add_special_tokens=True): truncate, add the two markers, pad on the right
Encode(text, name, MAX_LEN) ==
    LET kept == SubSeq(text, 1, Min(Len(text), MAX_LEN - 2))
    IN  <<MODELS(name).bos_id>> \o kept \o <<MODELS(name).eos_id>>
          \o Pads(MAX_LEN - Len(kept) - 2, MODELS(name).pad_id)

\* tokenize: the id rows of the texts of data (input_ids_tensor)
Tokenize(data, name, MAX_LEN) ==
    [i \in 1..Len(data) |-> Encode(data[i], name, MAX_LEN)]

\* value of the encoder's hidden state of a row at (layer, position, feature)
Hid(row, layer, p, f) ==
    ((row[p + 1] * 3 + p * 5 + layer * 7 + f * 11) % 13) * 30 - 250

\* hidden states of one row at one layer: a (MAX_LEN, 768) tensor
HiddenStates(row, layer) ==
    [rank |-> 2, rows |-> Len(row), cols |-> HiddenDim, tw |-> TrackDim,
     v |-> [p1 \in 1..Len(row) |->
              [f \in 1..TrackDim |-> Rat(Hid(row, layer, p1 - 1, f))]]]

\* value of the encoder's pooler output of a row at feature j (from 0)
PoolerValue(row, j) == ((row[2] * 3 + j * 5) % 3) - 1

\* a 0-D tensor
ScalarTensor(x) == [rank |-> 0, rows |-> 1, cols |-> 1, tw |-> 1, v |-> <<<<x>>>>]

\* torch.tensor([])
EmptyTensor == [rank |-> 1, rows |-> 0, cols |-> 0, tw |-> 0, v |-> <<>>]

\* self.model(input_ids_tensor[b], masks)[1], kept as the rows it is a
\* function of.  FlaubertModel returns (last_hidden_state, hidden_states):
\* element 1 is the tuple of the 13 hidden states, each (B, MAX_LEN, 768).
\* CamembertModel returns (last_hidden_state, pooler_output, hidden_states):
\* element 1 is the pooler output, one (B, 768) tensor.
Encoder(name, input_ids_tensor, b) ==
    [kind |-> IF name = "flaubert" THEN "hidden_states" ELSE "pooler_output",
     rows |-> [j \in 1..Len(b) |-> input_ids_tensor[b[j] + 1]]]

\* words_vector before it is assigned
NoLayer == [kind |-> "none", layer |-> 0, rows |-> <<>>]

\* encoded_layers_b[layer]: a member of the tuple of hidden states, or a row
\* of the pooler output
IndexLayer(encoded_layers_b, layer) ==
    IF encoded_layers_b.kind = "hidden_states"
    THEN IF ~PyIndexOk(NumLayers + 1, layer)
         THEN [err |-> Raise("IndexError", "hidden_states"), x |-> NoLayer]
         ELSE [err |-> NoError,
               x |-> [kind |-> "layer",
                      layer |-> PyIndexPos(NumLayers + 1, layer),
                      rows |-> encoded_layers_b.rows]]
    ELSE IF ~PyIndexOk(Len(encoded_layers_b.rows), layer)
         THEN [err |-> Raise("IndexError", "hidden_states"), x |-> NoLayer]
         ELSE [err |-> NoError,
               x |-> [kind |-> "pooled_row", layer |-> 0,
                      rows |-> <<encoded_layers_b.rows[
                                   PyIndexPos(Len(encoded_layers_b.rows),
                                              layer) + 1]>>]]

\* x[idx] for x = encoded_layers_b[layer]: the (MAX_LEN, 768) hidden states
\* of a document of the batch, or one number of a row of the pooler output
IndexDoc(x, idx) ==
    IF x.kind = "layer"
    THEN IF ~PyIndexOk(Len(x.rows), idx)
         THEN [err |-> Raise("IndexError", "hidden_states"), t |-> EmptyTensor]
         ELSE [err |-> NoError,
               t |-> HiddenStates(x.rows[PyIndexPos(Len(x.rows), idx) + 1],
                                  x.layer)]
    ELSE IF ~PyIndexOk(HiddenDim, idx)
         THEN [err |-> Raise("IndexError", "hidden_states"), t |-> EmptyTensor]
         ELSE [err |-> NoError,
               t |-> ScalarTensor(
                       Rat(PoolerValue(x.rows[1], PyIndexPos(HiddenDim, idx))))]

\* encoded_layers_b[layer][idx]
HiddenAt(encoded_layers_b, layer, idx) ==
    IF IndexLayer(encoded_layers_b, layer).err # NoError
    THEN [err |-> IndexLayer(encoded_layers_b, layer).err, t |-> EmptyTensor]
    ELSE IndexDoc(IndexLayer(encoded_layers_b, layer).x, idx)

(* ------------------------------ tensors -------------------------------- *)
\* torch.tensor([[x for i in range(cols)] for j in range(rows)])
Full(rows, cols, x) ==
    [rank |-> 2, rows |-> rows, cols |-> cols, tw |-> Min(cols, TrackDim),
     v |-> [p1 \in 1..rows |-> [f \in 1..Min(cols, TrackDim) |-> x]]]

\* broadcasting of one dimension: equal sizes, or one of them is 1
BroadcastOk(m, n) == m = n \/ m = 1 \/ n = 1
BroadcastDim(m, n) == IF m = 1 THEN n ELSE m

\* elementwise a.add(b) (op = "add") or torch.max(a, b) (op = "max")
Elementwise(a, b, op) ==
    IF ~BroadcastOk(a.rows, b.rows) \/ ~BroadcastOk(a.cols, b.cols)
    THEN [err |-> Raise("RuntimeError", "word_pooling"), t |-> a]
    ELSE LET rows == BroadcastDim(a.rows, b.rows)
             tw == IF a.cols = b.cols THEN Min(a.tw, b.tw)
                   ELSE IF a.cols = 1 THEN b.tw ELSE a.tw
             ra(p1) == IF a.rows = 1 THEN 1 ELSE p1
             rb(p1) == IF b.rows = 1 THEN 1 ELSE p1
             ca(f) == IF a.cols = 1 THEN 1 ELSE f
             cb(f) == IF b.cols = 1 THEN 1 ELSE f
         IN [err |-> NoError,
             t |-> [rank |-> 2, rows |-> rows,
                    cols |-> BroadcastDim(a.cols, b.cols), tw |-> tw,
                    v |-> [p1 \in 1..rows |-> [f \in 1..tw |->
                            IF op = "add"
                            THEN RAdd(a.v[ra(p1)][ca(f)], b.v[rb(p1)][cb(f)])
                            ELSE RMax(a.v[ra(p1)][ca(f)], b.v[rb(p1)][cb(f)])]]]]

\* tensor / count
Scale(a, count) ==
    [a EXCEPT !.v = [p1 \in 1..a.rows |-> [f \in 1..a.tw |->
                        RDiv(a.v[p1][f], count)]]]

\* torch.cat((a, b), dim=1); a tensor of shape (0,) is skipped, a 0-D tensor
\* cannot be concatenated
Cat(a, b) ==
    IF b.rank = 0 THEN [err |-> Raise("RuntimeError", "word_pooling"), t |-> a]
    ELSE IF a.rank = 1 /\ a.rows = 0 THEN [err |-> NoError, t |-> b]
    ELSE IF a.rows # b.rows
    THEN [err |-> Raise("RuntimeError", "word_pooling"), t |-> a]
    ELSE [err |-> NoError,
          t |-> [rank |-> 2, rows |-> a.rows, cols |-> a.cols + b.cols,
                 tw |-> a.tw + b.tw,
                 v |-> [p1 \in 1..a.rows |-> a.v[p1] \o b.v[p1]]]]

\* seq[:stop] and seq[start:] with Python's slice rule
PySliceTo(seq, stop) ==
    LET n == Len(seq)
        e == IF stop < 0 THEN Max(n + stop, 0) ELSE Min(stop, n)
    IN  SubSeq(seq, 1, e)

PySliceFrom(seq, start) ==
    LET n == Len(seq)
        s == IF start < 0 THEN Max(n + start, 0) ELSE Min(start, n)
    IN  SubSeq(seq, s + 1, n)

\* t[:eos_pos-1][1:]
SliceWords(seq, eos_pos) == PySliceFrom(PySliceTo(seq, eos_pos - 1), 1)

SliceTensor(t, eos_pos) ==
    LET rows == SliceWords([p1 \in 1..t.rows |-> p1], eos_pos)
    IN  [t EXCEPT !.rows = Len(rows),
                  !.v = [i \in 1..Len(rows) |-> t.v[rows[i]]]]

\* the 0-based positions of a row of n ids that t[:eos_pos-1][1:] keeps
SpanPositions(n, eos_pos) == SliceWords([p1 \in 1..n |-> p1 - 1], eos_pos)

(* ------------------------------ pooling -------------------------------- *)
\* what texts_vectors holds: a 1-D tensor ("tensor": width, tracked values),
\* a 0-D tensor ("scalar": its value when its feature is tracked), the pair
\* torch.max(t, axis=0) returns ("max": values and indices) or the indices
\* tensor of such a pair ("indices")
TensorElem(width, vals) ==
    [kind |-> "tensor", width |-> width, vals |-> vals, idxs |-> <<>>]
ScalarElem(vals) ==
    [kind |-> "scalar", width |-> 0, vals |-> vals, idxs |-> <<>>]
MaxElem(width, vals, idxs) ==
    [kind |-> "max", width |-> width, vals |-> vals, idxs |-> idxs]
IndicesElem(width, idxs) ==
    [kind |-> "indices", width |-> width, vals |-> <<>>, idxs |-> idxs]

RECURSIVE ColSum(_, _, _, _)
\* sum of feature f over rows lo..hi of v (halving keeps the nesting shallow)
ColSum(v, f, lo, hi) ==
    IF lo > hi THEN Rat(0)
    ELSE IF lo = hi THEN v[lo][f]
    ELSE LET mid == (lo + hi) \div 2
         IN  RAdd(ColSum(v, f, lo, mid), ColSum(v, f, mid + 1, hi))

RECURSIVE ColArgMax(_, _, _, _)
\* first 1-based row of the largest value of feature f among rows lo..hi
ColArgMax(v, f, lo, hi) ==
    IF lo = hi THEN lo
    ELSE LET mid == (lo + hi) \div 2
             l == ColArgMax(v, f, lo, mid)
             r == ColArgMax(v, f, mid + 1, hi)
         IN  IF RLess(v[l][f], v[r][f]) THEN r ELSE l

\* __sentence_pooling(vectors, pooling_method)
SentencePooling(vectors, pooling_method) ==
    IF Lower(pooling_method) = "average"
    THEN \* torch.mean(vectors, axis=0); the mean of no row is NaN
         [err |-> NoError,
          out |-> IF vectors.rank = 1
                  THEN ScalarElem(<<NaN>>)
                  ELSE TensorElem(vectors.cols,
                         [f \in 1..vectors.tw |->
                            RDiv(ColSum(vectors.v, f, 1, vectors.rows),
                                 vectors.rows)])]
    ELSE IF Lower(pooling_method) = "max"
    THEN \* torch.max(vectors, axis=0): a (values, indices) pair; no row raises
         IF vectors.rows = 0
         THEN [err |-> Raise("RuntimeError", "sentence_pooling"),
               out |-> TensorElem(0, <<>>)]
         ELSE [err |-> NoError,
               out |-> MaxElem(vectors.cols,
                         [f \in 1..vectors.tw |->
                            vectors.v[ColArgMax(vectors.v, f, 1, vectors.rows)][f]],
                         [f \in 1..vectors.tw |->
                            ColArgMax(vectors.v, f, 1, vectors.rows) - 1])]
    ELSE [err |-> NoError, out |-> TensorElem(0, <<>>)]

RECURSIVE WordFold(_, _, _, _, _)
\* the loop "for layer in layers" of __word_pooling from accumulator acc,
\* over layers[k..]; op is "cat", "add" or "max"
WordFold(acc, encoded_layers_b, layers, idx, op) ==
    IF layers = <<>> THEN [err |-> NoError, t |-> acc]
    ELSE LET h == HiddenAt(encoded_layers_b, Head(layers), idx)
         IN  IF h.err # NoError THEN [err |-> h.err, t |-> acc]
             ELSE LET r == IF op = "cat" THEN Cat(acc, h.t)
                           ELSE Elementwise(acc, h.t, op)
                  IN  IF r.err # NoError THEN r
                      ELSE WordFold(r.t, encoded_layers_b, Tail(layers), idx, op)

\* __word_pooling(encoded_layers_b, layers, idx, pooling_method)
WordPooling(encoded_layers_b, layers, idx, pooling_method) ==
    IF Lower(pooling_method) = "concat"
    THEN WordFold(EmptyTensor, encoded_layers_b, layers, idx, "cat")
    ELSE IF Lower(pooling_method) = "average"
    THEN LET r == WordFold(Full(AccRows, AccCols, Rat(0)),
                           encoded_layers_b, layers, idx, "add")
         IN  IF r.err # NoError THEN r
             ELSE [err |-> NoError, t |-> Scale(r.t, Len(layers))]
    ELSE IF Lower(pooling_method) = "max"
    THEN WordFold(Full(AccRows, AccCols, Rat(AccMaxInit)),
                  encoded_layers_b, layers, idx, "max")
    ELSE [err |-> NoError, t |-> EmptyTensor]

\* 0-based index of the first pad_id of row, -1 when there is none
FirstPad(row, pad_id) ==
    IF \E j \in 1..Len(row) : row[j] = pad_id
    THEN (CHOOSE j \in 1..Len(row) :
            row[j] = pad_id /\ \A i \in 1..(j - 1) : row[i] # pad_id) - 1
    ELSE -1

\* if input_ids_tensor[idx][-1]==1 : eos_pos = 0
\* else : eos_pos = int((input_ids_tensor[idx] == self.pad_id).nonzero()[0])
EosPos(row, pad_id) ==
    IF row[Len(row)] = EosCode THEN [err |-> NoError, eos_pos |-> 0]
    ELSE IF FirstPad(row, pad_id) < 0
    THEN [err |-> Raise("IndexError", "eos_pos"), eos_pos |-> -1]
    ELSE [err |-> NoError, eos_pos |-> FirstPad(row, pad_id)]

\* for i, sentence in enumerate(pooled_vectors): the items appended
Enumerate(pooled) ==
    IF pooled.kind = "max"
    THEN <<TensorElem(pooled.width, pooled.vals),
           IndicesElem(pooled.width, pooled.idxs)>>
    ELSE [i \in 1..pooled.width |->
            ScalarElem(IF i <= Len(pooled.vals) THEN <<pooled.vals[i]>>
                       ELSE <<>>)]

\* result of the body of "for idx in b" for one document: the error raised
\* (if any), eos_pos, whether __sentence_pooling was called and on which
\* positions of the row, and the items appended to texts_vectors
DocResult(err, eos_pos, handed, span, out) ==
    [err |-> err, eos_pos |-> eos_pos, handed |-> handed, span |-> span,
     out |-> out]

\* body of the loop of the list branch (layer_list is True)
PoolDocList(row, pad_id, encoded_layers_b, layers, local, wpm, spm) ==
    LET e == EosPos(row, pad_id)
    IN  IF e.err # NoError THEN DocResult(e.err, -1, FALSE, <<>>, <<>>)
        ELSE LET w == WordPooling(encoded_layers_b, layers, local, wpm)
             IN  IF w.err # NoError
                 THEN DocResult(w.err, e.eos_pos, FALSE, <<>>, <<>>)
                 ELSE LET s == SentencePooling(SliceTensor(w.t, e.eos_pos), spm)
                          span == SpanPositions(w.t.rows, e.eos_pos)
                      IN  IF s.err # NoError
                          THEN DocResult(s.err, e.eos_pos, TRUE, span, <<>>)
                          ELSE DocResult(NoError, e.eos_pos, TRUE, span,
                                         <<s.out>>)

\* body of the loop of the scalar branch, words_vector being
\* encoded_layers_b[layers]; a 0-D tensor cannot be sliced
PoolDocScalar(row, pad_id, words_vector, local, spm) ==
    LET e == EosPos(row, pad_id)
    IN  IF e.err # NoError THEN DocResult(e.err, -1, FALSE, <<>>, <<>>)
        ELSE LET w == IndexDoc(words_vector, local)
             IN  IF w.err # NoError
                 THEN DocResult(w.err, e.eos_pos, FALSE, <<>>, <<>>)
                 ELSE IF w.t.rank = 0
                 THEN DocResult(Raise("IndexError", "slice"), e.eos_pos,
                                FALSE, <<>>, <<>>)
                 ELSE LET s == SentencePooling(SliceTensor(w.t, e.eos_pos), spm)
                          span == SpanPositions(w.t.rows, e.eos_pos)
                      IN  IF s.err # NoError
                          THEN DocResult(s.err, e.eos_pos, TRUE, span, <<>>)
                          ELSE DocResult(NoError, e.eos_pos, TRUE, span,
                                         Enumerate(s.out))

(* ----------------------------- validation ------------------------------ *)
RECURSIVE CheckLayerList(_)
\* for el in layers: the first element that is no int, or lies outside 1..12
CheckLayerList(l) ==
    IF l = <<>> THEN NoError
    ELSE IF Head(l).t # "int" THEN Raise("TypeError", "validation")
    ELSE IF Head(l).i > NumLayers \/ Head(l).i < 1
    THEN Raise("ValueError", "validation")
    ELSE CheckLayerList(Tail(l))

\* the checks at the head of forward_and_pool, in their order
ValidateArgs(spm, wpm, bs, path, lay) ==
    IF spm \notin {"average", "max"} THEN Raise("ValueError", "validation")
    ELSE IF wpm \notin {"average", "max", "concat"}
    THEN Raise("ValueError", "validation")
    ELSE IF bs.t # "int" THEN Raise("TypeError", "validation")
    ELSE IF bs.i <= 0 THEN Raise("ValueError", "validation")
    ELSE IF path.t # "str" /\ path.t # "NoneType"
    THEN Raise("TypeError", "validation")
    ELSE IF lay.t # "int"
    THEN IF lay.t = "list" THEN CheckLayerList(lay.l)
         ELSE Raise("TypeError", "validation")
    ELSE IF lay.i > NumLayers \/ lay.i < 1
    THEN Raise("ValueError", "validation")
    ELSE NoError

\* layer_list when the checks are left, by a raise or by their end: it is set
\* once the checks before those of layers have passed and layers is a list
LayerListSet(spm, wpm, bs, path, lay) ==
    /\ spm \in {"average", "max"}
    /\ wpm \in {"average", "max", "concat"}
    /\ bs.t = "int"
    /\ bs.i > 0
    /\ path.t \in {"str", "NoneType"}
    /\ lay.t = "list"

\* the integers of a validated list of layers
LayerInts(lay) == [i \in 1..Len(lay.l) |-> lay.l[i].i]

(* ------------------------------ batching ------------------------------- *)
\* range(0, N)
Range(N) == [i \in 1..N |-> i - 1]

\* __batch: iterable[ndx:min(ndx + n, l)]
Batch(iterable, n, ndx) ==
    SubSeq(iterable, ndx + 1, Min(ndx + n, Len(iterable)))

\* idx - counter: the index of document idx in the output of its batch
LocalIndex(idx, cnt) == idx - cnt

\* a faulty variant of the step below: the counter advances by one per batch
NextCounterPerBatch(cnt, n) == cnt + 1
\* counter += batch_size
NextCounter(cnt, n) == cnt + n

(* ------------------------- the call as a function ---------------------- *)
\* the body of "for idx in b" for document idx, in the branch is_list
\* selects; enc is encoded_layers_b, wv is words_vector
PoolOne(ids, pad, enc, wv, is_list, lay, wpm, spm, idx, cnt) ==
    IF is_list
    THEN PoolDocList(ids[idx + 1], pad, enc, LayerInts(lay),
                     LocalIndex(idx, cnt), wpm, spm)
    ELSE PoolDocScalar(ids[idx + 1], pad, wv, LocalIndex(idx, cnt), spm)

RECURSIVE PoolBatchFrom(_, _, _, _, _, _, _)
\* "for idx in b" from the kk-th document of batch bb on; a is the record of
\* the arguments of the call, tv the texts_vectors so far
PoolBatchFrom(a, enc, wv, bb, kk, cnt, tv) ==
    IF kk = Len(bb) THEN [err |-> NoError, tv |-> tv]
    ELSE LET r == PoolOne(a.ids, a.pad, enc, wv, a.lay.t = "list", a.lay,
                          a.wpm, a.spm, bb[kk + 1], cnt)
         IN  IF r.err # NoError THEN [err |-> r.err, tv |-> tv]
             ELSE PoolBatchFrom(a, enc, wv, bb, kk + 1, cnt, tv \o r.out)

\* one batch: the encoder call, words_vector = encoded_layers_b[layers] in
\* the scalar branch, then the documents of the batch
PoolBatch(a, bb, cnt, tv) ==
    LET enc == Encoder(a.name, a.ids, bb)
    IN  IF a.lay.t = "list"
        THEN PoolBatchFrom(a, enc, NoLayer, bb, 0, cnt, tv)
        ELSE IF IndexLayer(enc, a.lay.i).err # NoError
        THEN [err |-> IndexLayer(enc, a.lay.i).err, tv |-> tv]
        ELSE PoolBatchFrom(a, enc, IndexLayer(enc, a.lay.i).x, bb, 0, cnt, tv)

RECURSIVE LoopFrom(_, _, _, _)
\* "for b in self.__batch(range(0,N), batch_size)" from generator position nd
LoopFrom(a, nd, cnt, tv) ==
    IF nd >= Len(a.ids) THEN [err |-> NoError, tv |-> tv]
    ELSE LET r == PoolBatch(a, Batch(Range(Len(a.ids)), a.bs.i, nd), cnt, tv)
         IN  IF r.err # NoError THEN r
             ELSE LoopFrom(a, nd + a.bs.i, NextCounter(cnt, a.bs.i), r.tv)

\* forward_and_pool as a function of its arguments: the error raised, or the
\* list returned
ForwardAndPool(a) ==
    IF ValidateArgs(a.spm, a.wpm, a.bs, a.path, a.lay) # NoError
    THEN [err |-> ValidateArgs(a.spm, a.wpm, a.bs, a.path, a.lay),
          tv |-> <<>>]
    ELSE LoopFrom(a, 0, 0, <<>>)

(* ------------------------------- state --------------------------------- *)
VARIABLES
    model_name, MAX_LEN, input_ids_tensor,
    sentence_pooling_method, word_pooling_method, layers, batch_size,
    path_to_save,
    pc, layer_list, texts_vectors, counter, ndx, b, k, encoded_layers_b,
    words_vector, batches, inference_calls, raised, saved, last_idx, last

args == <<model_name, MAX_LEN, input_ids_tensor, sentence_pooling_method,
          word_pooling_method, layers, batch_size, path_to_save>>
vars == <<model_name, MAX_LEN, input_ids_tensor, sentence_pooling_method,
          word_pooling_method, layers, batch_size, path_to_save,
          pc, layer_list, texts_vectors, counter, ndx, b, k,
          encoded_layers_b, words_vector, batches, inference_calls, raised,
          saved, last_idx, last>>

N == Len(input_ids_tensor)
pad_id == MODELS(model_name).pad_id

(* ------------------------------- inputs -------------------------------- *)
\* word counts of the texts tried: none, one, three, and a text that fills
\* the row
WordCounts(maxlen) == {c \in {0, 1, 3, maxlen - 2} : c <= maxlen - 2}

\* the j-th smallest (from 0) element of a set of numbers
Nth(S, j) == CHOOSE x \in S : Cardinality({y \in S : y < x}) = j

\* n texts whose word counts cycle through WordCounts from offset s
Corpus(n, s, maxlen) ==
    [i \in 1..n |->
       Text(Nth(WordCounts(maxlen),
                (s + i - 1) % Cardinality(WordCounts(maxlen))))]

Corpora(maxlen) ==
    {Corpus(n, s, maxlen) :
       n \in 0..MaxDocs, s \in 0..(Cardinality(WordCounts(maxlen)) - 1)}

GoodLayers ==
    {PyInt(11), PyInt(12), PyInt(1), PyList(<<PyInt(11)>>),
     PyList(<<PyInt(1)>>), PyList(<<PyInt(1), PyInt(12)>>)}
BadLayers ==
    {PyInt(0), PyInt(13), PyStr("11"), PyFloat("11.0"), PyList(<<>>),
     PyList(<<PyInt(13)>>), PyList(<<PyInt(11), PyInt(0)>>),
     PyList(<<PyInt(11), PyStr("12")>>)}
GoodBatchSizes == {PyInt(i) : i \in 1..MaxBatch}
BadBatchSizes == {PyInt(0), PyInt(-1), PyFloat("1.5"), PyBool(1)}
GoodPaths == {PyNone, PyStr("out/")}
BadPaths == {PyInt(5)}

\* the defaults of the signature of forward_and_pool
DefaultArgs ==
    [spm |-> "average", wpm |-> "average", bs |-> PyInt(DefaultBatchSize),
     path |-> PyNone, lay |-> PyInt(DefaultLayers)]

\* the call with the defaults, every combination of valid arguments, and
\* calls with one bad argument
ArgSpace ==
    {DefaultArgs}
    \cup [spm : {"average", "max"}, wpm : {"average", "max", "concat"},
           bs : GoodBatchSizes, path : GoodPaths, lay : GoodLayers]
    \cup {[DefaultArgs EXCEPT !.spm = x] : x \in {"Average", "median"}}
    \cup {[DefaultArgs EXCEPT !.wpm = x] : x \in {"MAX", "min"}}
    \cup {[DefaultArgs EXCEPT !.bs = x] : x \in BadBatchSizes}
    \cup {[DefaultArgs EXCEPT !.path = x] : x \in BadPaths}
    \cup [spm : {"average", "max"}, wpm : {"average", "max", "concat"},
          bs : GoodBatchSizes, path : {PyNone}, lay : BadLayers]

NotSaved == [written |-> FALSE, dir |-> "", name |-> "", content |-> <<>>]
NoDoc == DocResult(NoError, -1, FALSE, <<>>, <<>>)

Init ==
    /\ model_name \in ModelNames
    /\ MAX_LEN \in {SmallLen, DefaultMaxLen}
    /\ \E data \in Corpora(MAX_LEN) :
         input_ids_tensor = Tokenize(data, model_name, MAX_LEN)
    /\ \E a \in ArgSpace :
         /\ sentence_pooling_method = a.spm
         /\ word_pooling_method = a.wpm
         /\ batch_size = a.bs
         /\ path_to_save = a.path
         /\ layers = a.lay
    /\ pc = "validate"
    /\ layer_list = FALSE
    /\ texts_vectors = <<>>
    /\ counter = 0
    /\ ndx = 0
    /\ b = <<>>
    /\ k = 0
    /\ encoded_layers_b = Encoder(model_name, <<>>, <<>>)
    /\ words_vector = NoLayer
    /\ batches = <<>>
    /\ inference_calls = 0
    /\ raised = NoError
    /\ saved = NotSaved
    /\ last_idx = -1
    /\ last = NoDoc

(* ------------------------------ actions -------------------------------- *)
\* a check at the head of forward_and_pool raises
ValidateRaise ==
    /\ pc = "validate"
    /\ ValidateArgs(sentence_pooling_method, word_pooling_method, batch_size,
                    path_to_save, layers) # NoError
    /\ raised' = ValidateArgs(sentence_pooling_method, word_pooling_method,
                              batch_size, path_to_save, layers)
    /\ layer_list' = LayerListSet(sentence_pooling_method,
                                   word_pooling_method, batch_size,
                                   path_to_save, layers)
    /\ pc' = "raised"
    /\ UNCHANGED <<args, texts_vectors, counter, ndx, b, k,
                   encoded_layers_b, words_vector, batches, inference_calls,
                   saved, last_idx, last>>

\* every check passes: texts_vectors = [], counter = 0, the loop starts
ValidatePass ==
    /\ pc = "validate"
    /\ ValidateArgs(sentence_pooling_method, word_pooling_method, batch_size,
                    path_to_save, layers) = NoError
    /\ layer_list' = LayerListSet(sentence_pooling_method,
                                   word_pooling_method, batch_size,
                                   path_to_save, layers)
    /\ texts_vectors' = <<>>
    /\ counter' = 0
    /\ ndx' = 0
    /\ pc' = "loop"
    /\ UNCHANGED <<args, b, k, encoded_layers_b, words_vector, batches,
                   inference_calls, raised, saved, last_idx, last>>

\* __batch yields the next batch and the encoder runs on it; in the scalar
\* branch words_vector = encoded_layers_b[layers] follows
NextBatch ==
    /\ pc = "loop"
    /\ ndx < N
    /\ b' = Batch(Range(N), batch_size.i, ndx)
    /\ batches' = Append(batches, b')
    /\ encoded_layers_b' = Encoder(model_name, input_ids_tensor, b')
    /\ inference_calls' = inference_calls + 1
    /\ k' = 0
    /\ IF layer_list
       THEN /\ pc' = "batch"
            /\ UNCHANGED <<words_vector, raised>>
       ELSE LET w == IndexLayer(Encoder(model_name, input_ids_tensor,
                                        Batch(Range(N), batch_size.i, ndx)),
                                layers.i)
            IN  IF w.err # NoError
                THEN /\ raised' = w.err
                     /\ pc' = "raised"
                     /\ UNCHANGED words_vector
                ELSE /\ words_vector' = w.x
                     /\ pc' = "batch"
                     /\ UNCHANGED raised
    /\ UNCHANGED <<args, layer_list, texts_vectors, counter, ndx, saved,
                   last_idx, last>>

\* one turn of "for idx in b", in the branch layer_list selects
PoolDoc ==
    /\ pc = "batch"
    /\ k < Len(b)
    /\ LET idx == b[k + 1]
           r == PoolOne(input_ids_tensor, pad_id, encoded_layers_b,
                        words_vector, layer_list, layers, word_pooling_method,
                        sentence_pooling_method, idx, counter)
       IN  /\ last_idx' = idx
           /\ last' = [r EXCEPT !.out = <<>>]
           /\ IF r.err # NoError
              THEN /\ raised' = r.err
                   /\ pc' = "raised"
                   /\ UNCHANGED <<texts_vectors, k>>
              ELSE /\ texts_vectors' = texts_vectors \o r.out
                   /\ k' = k + 1
                   /\ UNCHANGED <<raised, pc>>
    /\ UNCHANGED <<args, layer_list, counter, ndx, b, encoded_layers_b,
                   words_vector, batches, inference_calls, saved>>

\* the batch is done: counter += batch_size, the generator steps on
EndBatch ==
    /\ pc = "batch"
    /\ k = Len(b)
    /\ counter' = NextCounter(counter, batch_size.i)
    /\ ndx' = ndx + batch_size.i
    /\ pc' = "loop"
    /\ UNCHANGED <<args, layer_list, texts_vectors, b, k, encoded_layers_b,
                   words_vector, batches, inference_calls, raised, saved,
                   last_idx, last>>

\* the loop is over: torch.save when path_to_save is given, then return
Return ==
    /\ pc = "loop"
    /\ ndx >= N
    /\ saved' = IF path_to_save # PyNone
                THEN [written |-> TRUE, dir |-> path_to_save.s,
                      name |-> "text_vectors", content |-> texts_vectors]
                ELSE saved
    /\ pc' = "done"
    /\ UNCHANGED <<args, layer_list, texts_vectors, counter, ndx, b, k,
                   encoded_layers_b, words_vector, batches, inference_calls,
                   raised, last_idx, last>>

Next ==
    \/ ValidateRaise
    \/ ValidatePass
    \/ NextBatch
    \/ PoolDoc
    \/ EndBatch
    \/ Return

Spec == Init /\ [][Next]_vars

(* ------------------------ notions of the claims ------------------------ *)
\* the id row of document idx
Row(idx) == input_ids_tensor[idx + 1]

\* true length T of a row [BOS, w1..wk, EOS, pad, ...]: the end marker is its
\* T-th id (no word id is a special id)
TrueLen(row) ==
    CHOOSE j \in 1..Len(row) :
        /\ row[j] = MODELS(model_name).eos_id
        /\ \A i \in 1..(j - 1) : row[i] # MODELS(model_name).eos_id

\* the row is maximally full: it ends with the end marker and holds no pad
IsFull(row) ==
    /\ row[Len(row)] = MODELS(model_name).eos_id
    /\ \A j \in 1..Len(row) : row[j] # pad_id

\* layers as the specification wants it: an integer in 1..12 or a non-empty
\* list of integers of 1..12
LayersWanted(lay) ==
    \/ lay.t = "int" /\ lay.i \in 1..NumLayers
    \/ /\ lay.t = "list"
       /\ lay.l # <<>>
       /\ \A i \in 1..Len(lay.l) :
            lay.l[i].t = "int" /\ lay.l[i].i \in 1..NumLayers

\* all five arguments as the specification wants them
ArgsWanted ==
    /\ sentence_pooling_method \in {"average", "max"}
    /\ word_pooling_method \in {"average", "max", "concat"}
    /\ batch_size.t = "int" /\ batch_size.i > 0
    /\ path_to_save.t \in {"str", "NoneType"}
    /\ LayersWanted(layers)

\* what __sentence_pooling yields for document idx in the call, or the error
\* raised on the way to it: the encoder output of the batch of idx, the
\* word vectors at idx - counter, the slice by eos_pos, the sentence pooling
DocPooled(idx) ==
    LET start == (idx \div batch_size.i) * batch_size.i
        enc == Encoder(model_name, input_ids_tensor,
                       Batch(Range(N), batch_size.i, start))
        e == EosPos(Row(idx), pad_id)
        w == IF layer_list
             THEN WordPooling(enc, LayerInts(layers), LocalIndex(idx, start),
                              word_pooling_method)
             ELSE HiddenAt(enc, layers.i, LocalIndex(idx, start))
    IN  IF ~layer_list /\ IndexLayer(enc, layers.i).err # NoError
        THEN [err |-> IndexLayer(enc, layers.i).err, out |-> TensorElem(0, <<>>)]
        ELSE IF e.err # NoError
        THEN [err |-> e.err, out |-> TensorElem(0, <<>>)]
        ELSE IF w.err # NoError
        THEN [err |-> w.err, out |-> TensorElem(0, <<>>)]
        ELSE IF w.t.rank = 0
        THEN [err |-> Raise("IndexError", "slice"), out |-> TensorElem(0, <<>>)]
        ELSE SentencePooling(SliceTensor(w.t, e.eos_pos),
                             sentence_pooling_method)

RECURSIVE Flatten(_)
Flatten(ss) == IF ss = <<>> THEN <<>> ELSE Head(ss) \o Flatten(Tail(ss))

RECURSIVE SetMax(_)
\* the largest number of a non-empty set of integers
SetMax(S) ==
    LET x == CHOOSE y \in S : TRUE
    IN  IF S = {x} THEN x ELSE Max(x, SetMax(S \ {x}))

RECURSIVE SeqSum(_)
SeqSum(q) == IF q = <<>> THEN 0 ELSE Head(q) + SeqSum(Tail(q))

\* the encoder's values of the selected layers at one word and feature
LayerValues(row, lays, p, f) == [i \in 1..Len(lays) |-> Hid(row, lays[i], p, f)]

(* ------------------------------- claims -------------------------------- *)
\* C1: a call that returns gives exactly N elements, element i being the text
\* vector of document i, whatever the pooling method and the form of layers.
C1_OneVectorPerDocument ==
    (pc = "done" /\ LayersWanted(layers)) =>
        /\ Len(texts_vectors) = N
        /\ \A i \in 1..Len(texts_vectors) :
             /\ DocPooled(i - 1).err = NoError
             /\ texts_vectors[i].width = DocPooled(i - 1).out.width
             /\ VecEq(texts_vectors[i].vals, DocPooled(i - 1).out.vals)

\* C2: for a right-padded row of true length T < max_len, of either model
\* family, the true length is resolved without error, the slice it gives
\* selects exactly the positions 1..T-2 of the max_len positions of the row,
\* and the positions handed to sentence pooling are exactly 1..T-2.
C2_SpanIsWordsOnly ==
    (last_idx >= 0 /\ LayersWanted(layers)
       /\ TrueLen(Row(last_idx)) < MAX_LEN) =>
        /\ last.err.at # "eos_pos"
        /\ SpanPositions(MAX_LEN, last.eos_pos)
             = [i \in 1..(TrueLen(Row(last_idx)) - 2) |-> i]
        /\ last.handed =>
             last.span = [i \in 1..(TrueLen(Row(last_idx)) - 2) |-> i]

\* C3: for a maximally full row of either model family the true-length
\* resolution does not raise, eos_pos is 0 and the positions pooled are
\* 1..max_len-2.
C3_FullRowResolves ==
    (last_idx >= 0 /\ LayersWanted(layers) /\ IsFull(Row(last_idx))) =>
        /\ last.err.at # "eos_pos"
        /\ last.eos_pos = 0
        /\ last.handed => last.span = [i \in 1..(MAX_LEN - 2) |-> i]

\* C4: with sentence_pooling_method "max" every value produced for a document
\* is one numeric vector (a 1-D tensor), not a pair of values and positions.
C4_MaxYieldsOneVector ==
    (sentence_pooling_method = "max" /\ LayersWanted(layers)) =>
        \A i \in 1..Len(texts_vectors) : texts_vectors[i].kind = "tensor"

\* C5: when an argument is invalid the call raises before the first encoder
\* call: no inference, no text vector, no return, nothing saved.
C5_InvalidArgsDoNothing ==
    ~ArgsWanted =>
        /\ inference_calls = 0
        /\ texts_vectors = <<>>
        /\ pc # "done"
        /\ saved = NotSaved

\* C6: every layers value that is neither an integer of 1..12 nor a
\* non-empty list of such integers is rejected by the validation.
C6_BadLayersRejected ==
    (pc # "validate" /\ ~LayersWanted(layers)) =>
        (pc = "raised" /\ raised.at = "validation")

\* C7: layers = L and layers = [L] with word pooling average or max return
\* the same number of elements, with equal vectors at each index.
C7_ScalarMatchesSingleton ==
    (pc = "done" /\ layers.t = "int") =>
        \A w \in {"average", "max"} :
            LET r == ForwardAndPool(
                       [name |-> model_name,
                        ids |-> input_ids_tensor, pad |-> pad_id,
                        spm |-> sentence_pooling_method, wpm |-> w,
                        bs |-> batch_size, path |-> path_to_save,
                        lay |-> PyList(<<layers>>)])
            IN  /\ r.err = NoError
                /\ Len(r.tv) = Len(texts_vectors)
                /\ \A i \in 1..Len(r.tv) :
                     VecEq(r.tv[i].vals, texts_vectors[i].vals)

\* C8: a document whose true-content span is empty or a single token does
\* not make sentence pooling crash, for average and for max.
C8_ShortSpanPools ==
    (last_idx >= 0 /\ LayersWanted(layers) /\ TrueLen(Row(last_idx)) <= 3) =>
        last.err.at # "sentence_pooling"

\* C9: for a non-empty list of layers, any max_len and any hidden values,
\* word pooling succeeds and gives at each word position and feature the mean
\* (average) or the maximum (max) of the selected layers' values.
C9_WordPoolingExact ==
    (pc = "batch" /\ k < Len(b) /\ layer_list /\ LayersWanted(layers)
       /\ word_pooling_method \in {"average", "max"}) =>
        LET row == Row(b[k + 1])
            lays == LayerInts(layers)
            w == WordPooling(encoded_layers_b, lays,
                             LocalIndex(b[k + 1], counter),
                             word_pooling_method)
        IN  /\ w.err = NoError
            /\ w.t.rows = MAX_LEN
            /\ \A p \in 0..(MAX_LEN - 1) : \A f \in 1..TrackDim :
                 LET vals == LayerValues(row, lays, p, f)
                 IN  IF word_pooling_method = "average"
                     THEN REq(w.t.v[p + 1][f],
                              [n |-> SeqSum(vals), d |-> Len(vals)])
                     ELSE REq(w.t.v[p + 1][f],
                              Rat(SetMax({vals[i] : i \in 1..Len(vals)})))

\* C10: the batches are contiguous index ranges covering 0..N-1 once, in
\* ascending order; every batch but the last has batch_size documents, the
\* last between 1 and batch_size; and idx - counter is the offset of the
\* document in its batch.
C10_BatchesPartition ==
    pc \in {"loop", "batch", "done"} =>
        /\ Flatten(batches) = Range(Len(Flatten(batches)))
        /\ Len(Flatten(batches)) <= N
        /\ \A j \in 1..Len(batches) :
             /\ Len(batches[j]) >= 1
             /\ Len(batches[j]) <= batch_size.i
             /\ j < Len(batches) => Len(batches[j]) = batch_size.i
        /\ pc = "done" => Len(Flatten(batches)) = N
        /\ (pc = "batch" /\ k < Len(b)) =>
             /\ LocalIndex(b[k + 1], counter) = k
             /\ LocalIndex(b[k + 1], counter) >= 0
             /\ LocalIndex(b[k + 1], counter) < Len(b)

\* a call on three documents with batch_size 2 has returned: a full batch and
\* a last batch of one document
C10_Witness ==
    /\ pc = "done"
    /\ N = 3
    /\ batch_size.i = 2
    /\ Len(batches) = 2
    /\ Len(batches[2]) = 1

====
